---- MODULE Spec2Model ----
(***************************************************************************)
(* Model of the account service (src/unnamed/part_002): the JWT            *)
(* middleware, the account read, the account creation and the balance      *)
(* update routes, running concurrently against one accounts table.         *)
(*                                                                         *)
(* A request handler runs without interruption until it awaits a store     *)
(* query; other requests run between a handler's awaits.  A step that      *)
(* ends at an await includes the store's execution of the awaited query;   *)
(* the handler's next step starts from the query's result.  The read and   *)
(* the creation await once (two steps), the balance update awaits twice    *)
(* (SELECT, UPDATE: three steps).                                          *)
(*                                                                         *)
(* The transaction service (src/applications/transaction-service/app.js)   *)
(* and the notification service (src/unnamed/part_001) are separate        *)
(* processes with their own requests; they run under SpecTxn, SpecNotify   *)
(* and SpecFlowFair, beside an accounts table that already has rows.       *)
(***************************************************************************)
EXTENDS Integers, Sequences, FiniteSets, TLC

(* ---------------------------- bounds ----------------------------------- *)
MaxReq == 3                      \* requests handled in one behaviour
MaxTxn == 2                      \* transfer requests in one behaviour
MaxNotif == 2                    \* notification requests in one behaviour
MaxArrive == 3                   \* requests to all services together (SpecAll)

(* ------------------------ program constants ---------------------------- *)
MAX_DEPOSIT == 1000000           \* part_002:154

(* ---------------------------- JS values -------------------------------- *)
\* A JSON body field: a number v, a non-numeric non-empty string, or absent.
Num(n)   == [t |-> "number", v |-> n]
StrVal   == [t |-> "string", v |-> 0]
Undef    == [t |-> "undefined", v |-> 0]

\* !x is false exactly for truthy x: non-zero numbers, non-empty strings
Truthy(x) == \/ x.t = "number" /\ x.v # 0
             \/ x.t = "string"
\* x < n and x > n after ToNumber; NaN compares false both ways
JsLt(x, n) == x.t = "number" /\ x.v < n
JsGt(x, n) == x.t = "number" /\ x.v > n
JsLe(x, n) == x.t = "number" /\ x.v <= n

(* ---------------------------- inputs ----------------------------------- *)
Users    == {1, 2}               \* the id claim of a token payload
NoUser   == 0
NoToken  == [sig |-> "none", id |-> NoUser]
Tokens   == {NoToken, [sig |-> "bad", id |-> 1],
             [sig |-> "good", id |-> 1], [sig |-> "good", id |-> 2]}

Digits   == {"0", "1", "2"}
DigitVal == [d \in Digits |-> CASE d = "0" -> 0 [] d = "1" -> 1 [] d = "2" -> 2]
PathIds  == {<<"1">>, <<"2">>, <<"1", "x">>}      \* req.params.id
NaN      == -1

Amounts  == {StrVal, Num(0), Num(-1), Num(1), Num(2)}
TxTypes  == {"credit", "debit", "refund"}
AccTypes == {"checking", "loan"}
Deposits == {StrVal, Num(-1), Num(0), Num(2), Num(MAX_DEPOSIT), Num(MAX_DEPOSIT + 1)}

(* ------------------------ string conversions --------------------------- *)
\* /^\d+$/.test(s)
IsDigitsUnanchored(s) == \E i \in 1..Len(s) : s[i] \in Digits

IsDigits(s) == Len(s) > 0 /\ \A i \in 1..Len(s) : s[i] \in Digits

RECURSIVE ParseDigits(_, _, _)
ParseDigits(s, i, acc) ==
    IF i > Len(s) \/ s[i] \notin Digits THEN acc
    ELSE ParseDigits(s, i + 1, acc * 10 + DigitVal[s[i]])

\* parseInt(s): the leading run of digits, NaN when there is none
parseInt(s) == IF Len(s) = 0 \/ s[1] \notin Digits THEN NaN
               ELSE ParseDigits(s, 1, 0)

\* the store's conversion of a text parameter to the integer key column:
\* an error for anything but an integer literal
PgIntOk(s) == IsDigits(s)
PgInt(s)   == ParseDigits(s, 1, 0)

(* ---------------------------- responses -------------------------------- *)
Resp(st, err, d) == [status |-> st, error |-> err, data |-> d]
NoResp           == Resp(0, "", <<>>)
Internal         == Resp(500, "Internal server error", <<>>)

VARIABLES
    accounts,    \* the accounts table: row i has account_id = i
    log,         \* the 'Balance updated' log records, in append order
    commits,     \* history: the balance writes, in commit order
    reqs         \* the requests: inputs, position, locals, response

VARIABLES
    txns,        \* the transfer requests: inputs, transaction id, response
    txnStatus,   \* the latest transaction status query and its response
    notifs,      \* the notification requests: inputs, id, timer, response
    notifLog,    \* the 'Notification sent' / 'Notification delivered' records
    notifStatus  \* the latest notification status query and its response

acctVars == <<accounts, log, commits, reqs>>
flowVars == <<txns, txnStatus, notifs, notifLog, notifStatus>>
vars == <<accounts, log, commits, reqs,
          txns, txnStatus, notifs, notifLog, notifStatus>>

ReqIds == 1..MaxReq

IdleReq == [op |-> "none", pc |-> "idle", token |-> NoToken, id |-> <<>>,
            amount |-> Undef, kind |-> "", user |-> NoUser,
            cur |-> 0, newBal |-> 0, existed |-> FALSE, owned |-> FALSE,
            queries |-> 0, rows |-> <<>>, err |-> FALSE, res |-> NoResp]

(* --------------------------- middleware -------------------------------- *)
\* jwt.verify(token, secret): succeeds for a token signed with the secret
JwtVerify(token) == token.sig = "good"

\* authenticateToken: 401 without a token, 403 for a token that does not
\* verify, otherwise req.user is the payload and the handler runs (next)
authenticateTokenAnySig(token) ==
    IF token.sig = "none" THEN [next |-> FALSE, res |-> Resp(401, "", <<>>), user |-> NoUser]
    ELSE [next |-> TRUE, res |-> NoResp, user |-> token.id]

authenticateToken(token) ==
    IF token.sig = "none" THEN [next |-> FALSE, res |-> Resp(401, "", <<>>), user |-> NoUser]
    ELSE IF ~JwtVerify(token) THEN [next |-> FALSE, res |-> Resp(403, "", <<>>), user |-> NoUser]
    ELSE [next |-> TRUE, res |-> NoResp, user |-> token.id]

(* ----------------------------- store ----------------------------------- *)
\* SELECT ... FROM accounts WHERE account_id = $1 AND user_id = $2
\* (the account ids of the matching rows; at most one)
SelectAccountAnyOwner(accts, idStr, uid) ==
    {i \in 1..Len(accts) : i = PgInt(idStr)}

SelectAccount(accts, idStr, uid) ==
    {i \in 1..Len(accts) : i = PgInt(idStr) /\ accts[i].user_id = uid}

\* SELECT balance FROM accounts WHERE account_id = $1 AND user_id = $2
SelectBalanceAnyOwner(accts, idStr, uid) ==
    {i \in 1..Len(accts) : i = PgInt(idStr)}

SelectBalance(accts, idStr, uid) ==
    {i \in 1..Len(accts) : i = PgInt(idStr) /\ accts[i].user_id = uid}

\* UPDATE accounts SET balance = $1 WHERE account_id = $2 AND user_id = $3
UpdateMatches(accts, idStr, uid) ==
    {i \in 1..Len(accts) : i = PgInt(idStr) /\ accts[i].user_id = uid}

UpdateBalance(accts, newBalance, idStr, uid) ==
    [i \in 1..Len(accts) |->
        IF i \in UpdateMatches(accts, idStr, uid)
        THEN [accts[i] EXCEPT !.balance = newBalance]
        ELSE accts[i]]

\* INSERT INTO accounts (user_id, ..., account_type, balance) RETURNING account_id
InsertAccount(accts, uid, accountType, deposit, r) ==
    Append(accts, [user_id |-> uid, account_type |-> accountType,
                   balance |-> deposit, initial |-> deposit, by |-> r])

\* result.rows of a SELECT that matched the accounts S (at most one)
ResultRows(accts, S) ==
    IF S = {} THEN <<>>
    ELSE LET a == CHOOSE i \in S : TRUE
         IN  <<[account_id |-> a, balance |-> accts[a].balance]>>

\* history: whether a row with this key exists, and whether uid owns it
RowExists(accts, idStr) ==
    PgIntOk(idStr) /\ PgInt(idStr) \in 1..Len(accts)
RowOwned(accts, idStr, uid) ==
    RowExists(accts, idStr) /\ accts[PgInt(idStr)].user_id = uid

(* ------------- transaction and notification services: state ------------ *)
TxnIds   == 1..MaxTxn
NotifIds == 1..MaxNotif

TxnResp(code, st, err) == [code |-> code, status |-> st, error |-> err]

IdleTxn == [pc |-> "idle", fromAccount |-> Undef, toAccount |-> Undef,
            amount |-> Undef, transactionId |-> 0, res |-> TxnResp(0, "", "")]

NotifResp(code, st, ty, err) == [code |-> code, status |-> st, type |-> ty, error |-> err]

IdleNotif == [pc |-> "idle", userId |-> Undef, type |-> "", message |-> Undef,
              notificationId |-> 0, txn |-> 0, res |-> NotifResp(0, "", "", "")]

NoQuery == [id |-> 0, status |-> "", type |-> ""]

FlowIdle ==
    /\ txns = [t \in TxnIds |-> IdleTxn]
    /\ txnStatus = NoQuery
    /\ notifs = [n \in NotifIds |-> IdleNotif]
    /\ notifLog = <<>>
    /\ notifStatus = NoQuery

Init ==
    /\ accounts = <<>>
    /\ log = <<>>
    /\ commits = <<>>
    /\ reqs = [r \in ReqIds |-> IdleReq]
    /\ FlowIdle

\* requests are numbered in order of arrival
CanArrive(r) ==
    /\ reqs[r].pc = "idle"
    /\ \A p \in ReqIds : p < r => reqs[p].pc # "idle"

Finish(r, base, response) ==
    reqs' = [reqs EXCEPT ![r] = [base EXCEPT !.pc = "done", !.res = response]]

(* ------------------- GET /api/account/:id ------------------------------ *)
\* the response after the SELECT, from its result
GetAccountAnswer(rows) ==
    IF Len(rows) = 0 THEN Resp(404, "Account not found", <<>>)
    ELSE Resp(200, "", <<rows[1].account_id, rows[1].balance>>)

\* the handler's response, given the table at the time of its query
GetAccountResponse(accts, user, id) ==
    IF ~IsDigits(id) THEN Resp(400, "Invalid account ID", <<>>)
    ELSE IF user # parseInt(id) THEN Resp(403, "Access denied", <<>>)
    ELSE GetAccountAnswer(ResultRows(accts, SelectAccount(accts, id, user)))

\* the number of store queries the handler issues: the SELECT, once the
\* path id and the caller's id have passed the two checks before it
GetAccountQueries(user, id) ==
    IF IsDigits(id) /\ user = parseInt(id) THEN 1 ELSE 0

\* A request record keeps the inputs its handler has examined: a request
\* stopped by the middleware or by a validation keeps only those before it.
\* Arrival up to the result of the SELECT; the two checks before the SELECT
\* answer at once.
GetAccount(r) ==
    /\ CanArrive(r)
    /\ \E token \in Tokens :
         LET auth == authenticateToken(token)
             b0   == [IdleReq EXCEPT !.op = "get", !.token = token, !.user = auth.user]
         IN  IF ~auth.next THEN Finish(r, b0, auth.res)
             ELSE \E id \in PathIds :
                    LET b1 == [b0 EXCEPT !.id = id,
                                         !.existed = RowExists(accounts, id),
                                         !.owned = RowOwned(accounts, id, auth.user),
                                         !.queries = GetAccountQueries(auth.user, id)]
                    IN  IF GetAccountQueries(auth.user, id) = 0
                        THEN Finish(r, b1, GetAccountResponse(accounts, auth.user, id))
                        ELSE reqs' = [reqs EXCEPT ![r] =
                               [b1 EXCEPT !.pc = "selected",
                                          !.rows = ResultRows(accounts,
                                                     SelectAccount(accounts, id, auth.user))]]
    /\ UNCHANGED <<accounts, log, commits>>
    /\ UNCHANGED flowVars

\* after the SELECT: 404 without a row, otherwise the account data
GetAnswer(r) ==
    /\ reqs[r].op = "get" /\ reqs[r].pc = "selected"
    /\ Finish(r, reqs[r], GetAccountAnswer(reqs[r].rows))
    /\ UNCHANGED <<accounts, log, commits>>
    /\ UNCHANGED flowVars

(* ------------------- POST /api/account --------------------------------- *)
ValidAccountType(accountType) == accountType \in {"checking", "savings"}

InvalidDepositNoCeiling(initialDeposit) ==
    \/ ~Truthy(initialDeposit)
    \/ JsLt(initialDeposit, 0)

InvalidDeposit(initialDeposit) ==
    \/ ~Truthy(initialDeposit)
    \/ JsLt(initialDeposit, 0)
    \/ JsGt(initialDeposit, MAX_DEPOSIT)

\* arrival up to the result of the INSERT
CreateAccount(r) ==
    /\ CanArrive(r)
    /\ \E token \in Tokens :
         LET auth == authenticateToken(token)
             b0   == [IdleReq EXCEPT !.op = "create", !.token = token, !.user = auth.user]
         IN  IF ~auth.next THEN Finish(r, b0, auth.res) /\ UNCHANGED accounts
             ELSE \E accountType \in AccTypes :
               LET b1 == [b0 EXCEPT !.kind = accountType]
               IN  IF ~ValidAccountType(accountType) THEN
                       Finish(r, b1, Resp(400, "Invalid account type", <<>>))
                       /\ UNCHANGED accounts
                   ELSE \E initialDeposit \in Deposits :
                     LET b2 == [b1 EXCEPT !.amount = initialDeposit]
                     IN  IF InvalidDeposit(initialDeposit) THEN
                             Finish(r, b2, Resp(400, "Invalid initial deposit amount", <<>>))
                             /\ UNCHANGED accounts
                         ELSE IF initialDeposit.t # "number" THEN
                             \* the INSERT throws on a non-numeric balance
                             /\ reqs' = [reqs EXCEPT ![r] =
                                    [b2 EXCEPT !.pc = "inserted", !.queries = 1,
                                               !.err = TRUE]]
                             /\ UNCHANGED accounts
                         ELSE /\ accounts' = InsertAccount(accounts, auth.user, accountType,
                                                           initialDeposit.v, r)
                              /\ reqs' = [reqs EXCEPT ![r] =
                                    [b2 EXCEPT !.pc = "inserted", !.queries = 1,
                                               !.rows = <<[account_id |-> Len(accounts) + 1,
                                                           balance |-> initialDeposit.v]>>]]
    /\ UNCHANGED <<log, commits>>
    /\ UNCHANGED flowVars

\* after the INSERT: 201 with the new row, or the catch's 500
CreateAnswer(r) ==
    /\ reqs[r].op = "create" /\ reqs[r].pc = "inserted"
    /\ LET q == reqs[r]
       IN  IF q.err THEN Finish(r, q, Internal)
           ELSE Finish(r, q, Resp(201, "", <<q.rows[1].account_id, q.rows[1].balance>>))
    /\ UNCHANGED <<accounts, log, commits>>
    /\ UNCHANGED flowVars

(* ------------------- PATCH /api/account/:id/balance -------------------- *)
InvalidAmount(amount) == ~Truthy(amount) \/ amount.t # "number"

ValidTxType(transactionType) == transactionType \in {"credit", "debit"}

NewBalanceAlwaysAdds(currentBalance, transactionType, amount) ==
    currentBalance + amount

NewBalance(currentBalance, transactionType, amount) ==
    IF transactionType = "credit" THEN currentBalance + amount
    ELSE currentBalance - amount

InsufficientFundsUnchecked(newBalance) == FALSE

InsufficientFunds(newBalance) == newBalance < 0

\* arrival up to the result of the SELECT
PatchRead(r) ==
    /\ CanArrive(r)
    /\ \E token \in Tokens :
         LET auth == authenticateToken(token)
             b0   == [IdleReq EXCEPT !.op = "patch", !.token = token, !.user = auth.user]
         IN  IF ~auth.next THEN Finish(r, b0, auth.res)
             ELSE \E amount \in Amounts :
               LET b1 == [b0 EXCEPT !.amount = amount]
               IN  IF InvalidAmount(amount) THEN
                       Finish(r, b1, Resp(400, "Invalid amount", <<>>))
                   ELSE \E transactionType \in TxTypes :
                     LET b2 == [b1 EXCEPT !.kind = transactionType]
                     IN  IF ~ValidTxType(transactionType) THEN
                             Finish(r, b2, Resp(400, "Invalid transaction type", <<>>))
                         ELSE \E id \in PathIds :
                           LET b3 == [b2 EXCEPT !.id = id,
                                         !.existed = RowExists(accounts, id),
                                         !.owned = RowOwned(accounts, id, auth.user),
                                         !.queries = 1]
                           IN  IF ~PgIntOk(id) THEN
                                   \* the SELECT throws on a key that is no integer
                                   reqs' = [reqs EXCEPT ![r] =
                                              [b3 EXCEPT !.pc = "read", !.err = TRUE]]
                               ELSE reqs' = [reqs EXCEPT ![r] =
                                       [b3 EXCEPT !.pc = "read",
                                                  !.rows = ResultRows(accounts,
                                                     SelectBalance(accounts, id, auth.user))]]
    /\ UNCHANGED <<accounts, log, commits>>
    /\ UNCHANGED flowVars

\* from the SELECT's result up to the UPDATE: the catch's 500, 404 without
\* a row, 400 for a balance that would be negative, otherwise the UPDATE
PatchWrite(r) ==
    /\ reqs[r].pc = "read"
    /\ LET q == reqs[r]
       IN  IF q.err THEN
                Finish(r, q, Internal) /\ UNCHANGED <<accounts, commits>>
           ELSE IF Len(q.rows) = 0 THEN
                /\ Finish(r, q, Resp(404, "Account not found", <<>>))
                /\ UNCHANGED <<accounts, commits>>
           ELSE LET currentBalance == q.rows[1].balance
                    newBalance == NewBalance(currentBalance, q.kind, q.amount.v)
                    hit        == UpdateMatches(accounts, q.id, q.user)
                IN  IF InsufficientFunds(newBalance) THEN
                         /\ Finish(r, [q EXCEPT !.cur = currentBalance],
                                   Resp(400, "Insufficient funds", <<>>))
                         /\ UNCHANGED <<accounts, commits>>
                    ELSE /\ accounts' = UpdateBalance(accounts, newBalance, q.id, q.user)
                         /\ commits' = IF hit = {} THEN commits
                                       ELSE Append(commits,
                                              [accountId |-> PgInt(q.id), req |-> r,
                                               before |-> accounts[PgInt(q.id)].balance,
                                               after |-> newBalance])
                         /\ reqs' = [reqs EXCEPT ![r] =
                                       [q EXCEPT !.pc = "written", !.cur = currentBalance,
                                                  !.newBal = newBalance, !.queries = 2]]
    /\ UNCHANGED log
    /\ UNCHANGED flowVars

\* after the UPDATE: the 'Balance updated' record and the response
PatchLog(r) ==
    /\ reqs[r].pc = "written"
    /\ LET q == reqs[r]
       IN  /\ log' = Append(log, [accountId |-> PgInt(q.id), req |-> r,
                                  oldBalance |-> q.cur, newBalance |-> q.newBal,
                                  transactionType |-> q.kind, amount |-> q.amount.v])
           /\ Finish(r, q, Resp(200, "", <<q.newBal>>))
    /\ UNCHANGED <<accounts, commits>>
    /\ UNCHANGED flowVars

Next ==
    \/ \E r \in ReqIds : GetAccount(r)
    \/ \E r \in ReqIds : GetAnswer(r)
    \/ \E r \in ReqIds : CreateAccount(r)
    \/ \E r \in ReqIds : CreateAnswer(r)
    \/ \E r \in ReqIds : PatchRead(r)
    \/ \E r \in ReqIds : PatchWrite(r)
    \/ \E r \in ReqIds : PatchLog(r)

Spec == Init /\ [][Next]_vars

Quiescent == \A r \in ReqIds : reqs[r].pc \in {"idle", "done"}

(* ============ transaction service: POST /api/transaction =============== *)
TxnAccounts == {Undef, Num(1), Num(2), Num(9)}     \* fromAccount, toAccount
TxnAmounts  == {Num(0), Num(-5), Num(50), Num(1000)}

\* the accounts table the other services run beside: account 1 of user 1
\* and account 2 of user 2, as two account creations leave them
FlowBalances == {10, 60}
FlowRow(uid, b) == [user_id |-> uid, account_type |-> "checking",
                    balance |-> b, initial |-> b, by |-> 0]
FlowTables == {<<FlowRow(1, b1), FlowRow(2, 10)>> : b1 \in FlowBalances}

\* !fromAccount || !toAccount || !amount || amount <= 0, up to each field
InvalidTransactionAmount(amount) == ~Truthy(amount) \/ JsLe(amount, 0)

CanArriveTxn(t) ==
    /\ txns[t].pc = "idle"
    /\ \A p \in TxnIds : p < t => txns[p].pc # "idle"

FinishTxn(t, base, response) ==
    txns' = [txns EXCEPT ![t] = [base EXCEPT !.pc = "done", !.res = response]]

InvalidTransaction == TxnResp(400, "", "Invalid transaction data")

\* The handler validates the body, makes up a transaction id, logs and
\* answers 'completed'; it reads and writes no store and calls no other
\* service.  The id ('txn_' and nine random characters) is a fresh one.
Transfer(t) ==
    /\ CanArriveTxn(t)
    /\ \E fromAccount \in TxnAccounts :
         LET b0 == [IdleTxn EXCEPT !.fromAccount = fromAccount]
         IN  IF ~Truthy(fromAccount) THEN FinishTxn(t, b0, InvalidTransaction)
             ELSE \E toAccount \in TxnAccounts :
               LET b1 == [b0 EXCEPT !.toAccount = toAccount]
               IN  IF ~Truthy(toAccount) THEN FinishTxn(t, b1, InvalidTransaction)
                   ELSE \E amount \in TxnAmounts :
                     LET b2 == [b1 EXCEPT !.amount = amount]
                     IN  IF InvalidTransactionAmount(amount)
                         THEN FinishTxn(t, b2, InvalidTransaction)
                         ELSE FinishTxn(t, [b2 EXCEPT !.transactionId = t],
                                        TxnResp(201, "completed", ""))
    /\ UNCHANGED <<txnStatus, notifs, notifLog, notifStatus>>
    /\ UNCHANGED acctVars

(* ============ transaction service: GET /api/transaction/:id ============ *)
TxnQueryIds == 1..(MaxTxn + 1)

\* the mock answer: the id asked for, status 'completed'
TxnStatusResponse(transactionId) ==
    [id |-> transactionId, status |-> "completed", type |-> ""]

TxnStatus ==
    /\ \E transactionId \in TxnQueryIds :
         txnStatus' = TxnStatusResponse(transactionId)
    /\ UNCHANGED <<txns, notifs, notifLog, notifStatus>>
    /\ UNCHANGED acctVars

(* ============ notification service: POST /api/notification/send ======== *)
NotifUsers    == {Undef, Num(1)}
NotifTypes    == {"", "email", "sms", "push", "fax"}
NotifMessages == {Undef, StrVal}

ValidNotifType(type) == type \in {"email", "sms", "push"}

\* the simulated delivery time of a channel, in ms
DeliveryTime(type) ==
    CASE type = "email" -> 2000
      [] type = "sms"   -> 1000
      [] type = "push"  -> 500

CanArriveNotif(n) ==
    /\ notifs[n].pc = "idle"
    /\ \A p \in NotifIds : p < n => notifs[p].pc # "idle"

FinishNotif(n, base, response) ==
    notifs' = [notifs EXCEPT ![n] = [base EXCEPT !.pc = "done", !.res = response]]

MissingFields == NotifResp(400, "", "", "Missing required fields")

\* the response of an accepted request: 201, status 'queued', the type
QueuedResponseDelivered(type) == NotifResp(201, "delivered", type, "")

QueuedResponse(type) == NotifResp(201, "queued", type, "")

\* setTimeout: the timer of a request is set once and fires once
TimerPendingRepeating(q) == q.pc \in {"queued", "delivered"}

TimerPending(q) == q.pc = "queued"

\* validation, a fresh id, the 'Notification sent' record, the timer, and
\* the 'queued' response; the request body carries no transaction reference
NotifySend(n) ==
    /\ CanArriveNotif(n)
    /\ \E userId \in NotifUsers :
         LET b0 == [IdleNotif EXCEPT !.userId = userId]
         IN  IF ~Truthy(userId)
             THEN FinishNotif(n, b0, MissingFields) /\ UNCHANGED notifLog
             ELSE \E type \in NotifTypes :
               LET b1 == [b0 EXCEPT !.type = type]
               IN  IF type = ""
                   THEN FinishNotif(n, b1, MissingFields) /\ UNCHANGED notifLog
                   ELSE \E message \in NotifMessages :
                     LET b2 == [b1 EXCEPT !.message = message]
                     IN  IF ~Truthy(message)
                         THEN FinishNotif(n, b2, MissingFields) /\ UNCHANGED notifLog
                         ELSE IF ~ValidNotifType(type)
                         THEN FinishNotif(n, b2, NotifResp(400, "", "", "Invalid notification type"))
                              /\ UNCHANGED notifLog
                         ELSE /\ notifLog' = Append(notifLog,
                                     [event |-> "sent", id |-> n, type |-> type])
                              /\ notifs' = [notifs EXCEPT ![n] =
                                     [b2 EXCEPT !.pc = "queued", !.notificationId = n,
                                                !.res = QueuedResponse(type)]]
    /\ UNCHANGED <<txns, txnStatus, notifStatus>>
    /\ UNCHANGED acctVars

\* The timer of a queued notification fires: the 'Notification delivered'
\* record.  A timer set earlier with a delay that is not longer fires first.
NotifyDeliver(n) ==
    /\ TimerPending(notifs[n])
    /\ \A m \in NotifIds :
          (m < n /\ notifs[m].pc = "queued")
          => DeliveryTime(notifs[m].type) > DeliveryTime(notifs[n].type)
    /\ notifLog' = Append(notifLog, [event |-> "delivered", id |-> notifs[n].notificationId,
                                     type |-> notifs[n].type])
    /\ notifs' = [notifs EXCEPT ![n].pc = "delivered"]
    /\ UNCHANGED <<txns, txnStatus, notifStatus>>
    /\ UNCHANGED acctVars

(* ============ notification service: GET /api/notification/:id ========== *)
NotifQueryIds == 1..(MaxNotif + 1)

\* the mock answer: the id asked for, status 'delivered', type 'email'
NotifStatusResponse(notificationId) ==
    [id |-> notificationId, status |-> "delivered", type |-> "email"]

NotifyStatus ==
    /\ \E notificationId \in NotifQueryIds :
         notifStatus' = NotifStatusResponse(notificationId)
    /\ UNCHANGED <<txns, txnStatus, notifs, notifLog>>
    /\ UNCHANGED acctVars

(* --------------------------- specifications ---------------------------- *)
InitFlow ==
    /\ accounts \in FlowTables
    /\ log = <<>>
    /\ commits = <<>>
    /\ reqs = [r \in ReqIds |-> IdleReq]
    /\ FlowIdle

NextTxn ==
    \/ \E t \in TxnIds : Transfer(t)
    \/ TxnStatus

SpecTxn == InitFlow /\ [][NextTxn]_vars

NextNotify ==
    \/ \E n \in NotifIds : NotifySend(n)
    \/ \E n \in NotifIds : NotifyDeliver(n)
    \/ NotifyStatus

SpecNotify == InitFlow /\ [][NextNotify]_vars

\* transfers and notifications together; a timer that is set does fire
NextFlow ==
    \/ \E t \in TxnIds : Transfer(t)
    \/ \E n \in NotifIds : NotifySend(n)
    \/ \E n \in NotifIds : NotifyDeliver(n)

SpecFlowFair ==
    /\ InitFlow /\ [][NextFlow]_vars
    /\ \A n \in NotifIds : WF_vars(NotifyDeliver(n))

\* the three services together, for a bounded number of requests
Arrived ==
    Cardinality({r \in ReqIds : reqs[r].pc # "idle"})
    + Cardinality({t \in TxnIds : txns[t].pc # "idle"})
    + Cardinality({n \in NotifIds : notifs[n].pc # "idle"})

MayArrive == Arrived < MaxArrive

NextAll ==
    \/ \E r \in ReqIds : MayArrive /\ GetAccount(r)
    \/ \E r \in ReqIds : GetAnswer(r)
    \/ \E r \in ReqIds : MayArrive /\ CreateAccount(r)
    \/ \E r \in ReqIds : CreateAnswer(r)
    \/ \E r \in ReqIds : MayArrive /\ PatchRead(r)
    \/ \E r \in ReqIds : PatchWrite(r)
    \/ \E r \in ReqIds : PatchLog(r)
    \/ \E t \in TxnIds : MayArrive /\ Transfer(t)
    \/ \E n \in NotifIds : MayArrive /\ NotifySend(n)
    \/ \E n \in NotifIds : NotifyDeliver(n)

SpecAll == Init /\ [][NextAll]_vars

(* ======================= properties ==================================== *)
Done(r)      == reqs[r].pc = "done"
Authed(r)    == reqs[r].user # NoUser
Succeeded(r) == Done(r) /\ reqs[r].res.status \in {200, 201}
AccountIds   == 1..Len(accounts)

\* the patch requests on account a that reported success
PatchOk(a) == {r \in ReqIds : /\ reqs[r].op = "patch" /\ Succeeded(r)
                              /\ PgInt(reqs[r].id) = a}
\* the patch requests on account a that failed with 'Insufficient funds'
PatchShort(a) == {r \in ReqIds : /\ reqs[r].op = "patch" /\ Done(r)
                                 /\ reqs[r].res.error = "Insufficient funds"
                                 /\ PgInt(reqs[r].id) = a}

Signed(r) == IF reqs[r].kind = "credit" THEN reqs[r].amount.v ELSE 0 - reqs[r].amount.v

RECURSIVE SumSigned(_)
SumSigned(S) == IF S = {} THEN 0
                ELSE LET r == CHOOSE x \in S : TRUE
                     IN  Signed(r) + SumSigned(S \ {r})

Min(x, y) == IF x < y THEN x ELSE y

\* the 'Balance updated' records of account a, in append order
AuditOf(a) == LET OfA(e) == e.accountId = a IN SelectSeq(log, OfA)
\* the committed balance writes of account a, in commit order
CommitsOf(a) == LET OfA(c) == c.accountId = a IN SelectSeq(commits, OfA)

\* C1: every stored account balance is >= 0 in every reachable state, for
\* any interleaving of account creations and balance adjustments.
C1_BalanceNonNegative == \A a \in AccountIds : accounts[a].balance >= 0

\* two debits on one account have both committed and emptied it
C1_Witness ==
    \E a \in AccountIds :
        /\ accounts[a].balance = 0
        /\ \E i, j \in 1..Len(commits) :
              /\ i < j
              /\ commits[i].accountId = a /\ commits[j].accountId = a
              /\ reqs[commits[i].req].kind = "debit"
              /\ reqs[commits[j].req].kind = "debit"

\* C2: once the balance adjustments have all finished, the stored balance of
\* an account is its initial balance plus the successful credits minus the
\* successful debits (no update is lost).
C2_NoLostUpdate ==
    Quiescent =>
        \A a \in AccountIds :
            accounts[a].balance = accounts[a].initial + SumSigned(PatchOk(a))

\* C3: when the adjustments of an account were N debits of one amount A > 0
\* against its balance B, exactly floor(B/A) of them (all N when there are
\* fewer) succeeded and the others failed with InsufficientFunds.
C3_DebitsFloor ==
    Quiescent =>
        \A a \in AccountIds : \A A \in {1, 2} :
            LET D == PatchOk(a) \cup PatchShort(a)
            IN  (/\ D # {}
                 /\ \A r \in D : reqs[r].kind = "debit" /\ reqs[r].amount.v = A)
                => Cardinality(PatchOk(a))
                     = Min(Cardinality(D), accounts[a].initial \div A)

\* C4: a balance write takes effect only if the stored balance at the write
\* is the balance the same request read.
C4_WriteOnlyIfUnchanged ==
    \A k \in 1..Len(commits) : commits[k].before = reqs[commits[k].req].cur

\* C5: once the adjustments have finished, the audit entries of an account,
\* replayed in order from the initial deposit, give the stored balance: the
\* first entry starts at the deposit, each entry starts where the previous
\* one ended, and the last one ends at the stored balance.
C5_AuditReplay ==
    Quiescent =>
        \A a \in AccountIds :
            LET es == AuditOf(a)
            IN  /\ Len(es) = 0 => accounts[a].balance = accounts[a].initial
                /\ Len(es) > 0 =>
                     /\ es[1].oldBalance = accounts[a].initial
                     /\ es[Len(es)].newBalance = accounts[a].balance
                     /\ \A k \in 1..(Len(es) - 1) :
                            es[k + 1].oldBalance = es[k].newBalance

\* C6: the number of audit entries of an account always equals the number
\* of committed balance writes on it.
C6_AuditPerWrite ==
    \A a \in AccountIds : Len(AuditOf(a)) = Len(CommitsOf(a))

\* C7: a read returns account data, an adjustment reports a balance, and a
\* balance write takes effect, only for the account's owner as named by the
\* caller's verified token.
C7_OwnerOnly ==
    /\ \A r \in ReqIds :
          (Done(r) /\ reqs[r].op = "get" /\ reqs[r].res.status = 200) =>
              /\ JwtVerify(reqs[r].token)
              /\ accounts[reqs[r].res.data[1]].user_id = reqs[r].token.id
    /\ \A r \in ReqIds :
          (Done(r) /\ reqs[r].op = "patch" /\ reqs[r].res.status = 200) =>
              /\ JwtVerify(reqs[r].token)
              /\ accounts[PgInt(reqs[r].id)].user_id = reqs[r].token.id
    /\ \A k \in 1..Len(commits) :
          /\ JwtVerify(reqs[commits[k].req].token)
          /\ accounts[commits[k].accountId].user_id = reqs[commits[k].req].token.id

\* a request asked for an existing account of another user
OtherUsersAccount(r) ==
    /\ Done(r) /\ Authed(r) /\ reqs[r].op \in {"get", "patch"}
    /\ reqs[r].existed /\ ~reqs[r].owned

\* an owner's balance write has committed, and the user whose id is the
\* account's id, who does not own the account, has asked to read it
C7_Witness ==
    /\ Len(commits) > 0
    /\ \E r \in ReqIds : /\ OtherUsersAccount(r) /\ reqs[r].op = "get"
                         /\ parseInt(reqs[r].id) = reqs[r].user

\* C8: an authenticated caller that does not own account X gets Denied for
\* the read and for the adjustment of X, whether or not X exists.
C8_NonOwnerDenied ==
    \A r \in ReqIds :
        (/\ Done(r) /\ Authed(r) /\ reqs[r].op \in {"get", "patch"}
         /\ IsDigits(reqs[r].id) /\ ~reqs[r].owned)
        => reqs[r].res = Resp(403, "Access denied", <<>>)

\* C9: two requests of one caller for one account id with the same body, to
\* an account the caller does not own, get the same response whether the
\* account exists or not.
SameRequest(r1, r2) ==
    /\ reqs[r1].op = reqs[r2].op /\ reqs[r1].token = reqs[r2].token
    /\ reqs[r1].id = reqs[r2].id /\ reqs[r1].amount = reqs[r2].amount
    /\ reqs[r1].kind = reqs[r2].kind

NonOwnerPair(r1, r2) ==
    /\ Done(r1) /\ Done(r2) /\ Authed(r1) /\ reqs[r1].op \in {"get", "patch"}
    /\ SameRequest(r1, r2)
    /\ ~reqs[r1].owned /\ ~reqs[r2].owned

C9_NoExistenceLeak ==
    \A r1, r2 \in ReqIds : NonOwnerPair(r1, r2) => reqs[r1].res = reqs[r2].res

\* the same adjustment was made when the account did not exist and when it
\* existed for another user
C9_Witness ==
    \E r1, r2 \in ReqIds :
        /\ NonOwnerPair(r1, r2) /\ reqs[r1].op = "patch"
        /\ ~reqs[r1].existed /\ reqs[r2].existed

\* C10: every account insert and every balance update was made by a request
\* whose token the middleware had verified, acting as the token's identity.
C10_AuthBeforeMutation ==
    /\ \A a \in AccountIds :
          /\ JwtVerify(reqs[accounts[a].by].token)
          /\ accounts[a].user_id = reqs[accounts[a].by].token.id
    /\ \A k \in 1..Len(commits) : JwtVerify(reqs[commits[k].req].token)

\* an insert and a balance update have happened, and a request with a token
\* that does not verify was turned away
C10_Witness ==
    /\ Len(accounts) > 0 /\ Len(commits) > 0
    /\ \E r \in ReqIds : Done(r) /\ reqs[r].token.sig = "bad" /\ reqs[r].res.status = 403

\* C11: a request without a token is answered 401 and one whose token does
\* not verify 403; its handler never runs: it issues no store query and
\* makes no insert and no balance write.
C11_Unauthenticated ==
    \A r \in ReqIds :
        (reqs[r].pc # "idle" /\ ~JwtVerify(reqs[r].token)) =>
            /\ Done(r)
            /\ reqs[r].res = Resp(IF reqs[r].token.sig = "none" THEN 401 ELSE 403, "", <<>>)
            /\ reqs[r].queries = 0
            /\ \A a \in AccountIds : accounts[a].by # r
            /\ \A k \in 1..Len(commits) : commits[k].req # r

\* a balance adjustment without a token and an account creation with a
\* token that does not verify have been answered
C11_Witness ==
    /\ \E r \in ReqIds : Done(r) /\ reqs[r].op = "patch" /\ reqs[r].token.sig = "none"
    /\ \E r \in ReqIds : Done(r) /\ reqs[r].op = "create" /\ reqs[r].token.sig = "bad"

\* C12: a debit whose amount exceeds the balance it read fails with
\* 'Insufficient funds' and has no effect: the step that decides it leaves
\* the accounts, the audit entries and the committed writes unchanged.
C12_InsufficientNoEffect ==
    [][\A r \in ReqIds :
          (/\ reqs[r].pc = "read" /\ reqs[r].kind = "debit"
           /\ Len(reqs[r].rows) = 1
           /\ reqs[r].amount.v > reqs[r].rows[1].balance
           /\ reqs'[r] # reqs[r])
          => /\ reqs'[r].pc = "done"
             /\ reqs'[r].res = Resp(400, "Insufficient funds", <<>>)
             /\ accounts' = accounts /\ log' = log /\ commits' = commits]_vars

\* a debit of more than the balance read has been refused
C12_Witness ==
    \E r \in ReqIds :
        /\ Done(r) /\ reqs[r].op = "patch" /\ reqs[r].kind = "debit"
        /\ reqs[r].amount.v > reqs[r].cur
        /\ reqs[r].res.error = "Insufficient funds"

\* C13: a balance adjustment whose amount is a number <= 0 fails validation
\* with 'Invalid amount', for a credit and for a debit.
C13_NonPositiveRejected ==
    \A r \in ReqIds :
        (/\ reqs[r].op = "patch" /\ Authed(r)
         /\ reqs[r].amount.t = "number" /\ reqs[r].amount.v <= 0)
        => Done(r) /\ reqs[r].res = Resp(400, "Invalid amount", <<>>)

\* C14: an account creation whose initialDeposit is below 0 or above
\* MAX_DEPOSIT is answered with the deposit validation error, issues no
\* INSERT and adds no account; every stored initial deposit is in range.
C14_DepositRangeRejected ==
    /\ \A r \in ReqIds :
          (/\ reqs[r].op = "create" /\ reqs[r].amount.t = "number"
           /\ (reqs[r].amount.v < 0 \/ reqs[r].amount.v > MAX_DEPOSIT))
          => /\ reqs[r].res = Resp(400, "Invalid initial deposit amount", <<>>)
             /\ reqs[r].queries = 0
             /\ \A a \in AccountIds : accounts[a].by # r
    /\ \A a \in AccountIds : accounts[a].initial \in 0..MAX_DEPOSIT

\* a deposit below 0 and a deposit above MAX_DEPOSIT have been refused
C14_Witness ==
    /\ \E r \in ReqIds : Done(r) /\ reqs[r].op = "create" /\ reqs[r].amount = Num(-1)
    /\ \E r \in ReqIds : Done(r) /\ reqs[r].op = "create"
                         /\ reqs[r].amount = Num(MAX_DEPOSIT + 1)

(* ------------------ transfers (SpecTxn, SpecFlowFair) ------------------ *)
TxnDone(t)      == txns[t].pc = "done"
TxnCompleted(t) == TxnDone(t) /\ txns[t].res.status = "completed"

\* C15: a transfer whose source is its destination, or whose amount is a
\* number <= 0, is rejected and never reported completed.
C15_InvalidTransferRejected ==
    \A t \in TxnIds :
        (/\ TxnDone(t)
         /\ \/ Truthy(txns[t].fromAccount) /\ txns[t].fromAccount = txns[t].toAccount
            \/ JsLe(txns[t].amount, 0))
        => txns[t].res.code = 400 /\ txns[t].res.status # "completed"

\* C16: the step that reports a transfer completed decreases the source
\* balance by the amount and increases the destination balance by it.
C16_CompletedMovesMoney ==
    [][\A t \in TxnIds :
          (txns[t].pc = "idle" /\ txns'[t].res.status = "completed")
          => LET src == txns'[t].fromAccount.v
                 dst == txns'[t].toAccount.v
                 amt == txns'[t].amount.v
             IN  /\ src \in AccountIds /\ dst \in AccountIds
                 /\ accounts'[src].balance = accounts[src].balance - amt
                 /\ accounts'[dst].balance = accounts[dst].balance + amt]_vars

\* C17: a transfer whose source account does not exist or holds less than
\* the amount ends failed, and no balance is changed.
C17_DebitFailureFails ==
    [][\A t \in TxnIds :
          (/\ txns[t].pc = "idle" /\ txns'[t].pc = "done"
           /\ txns'[t].amount.t = "number" /\ txns'[t].amount.v > 0
           /\ \/ txns'[t].fromAccount.v \notin AccountIds
              \/ accounts[txns'[t].fromAccount.v].balance < txns'[t].amount.v)
          => /\ txns'[t].res.status # "completed"
             /\ accounts' = accounts]_vars

\* C18: a transfer from an account that holds the amount to an account
\* that does not exist ends failed, and the source balance is what it was.
C18_CreditFailureCompensated ==
    [][\A t \in TxnIds :
          (/\ txns[t].pc = "idle" /\ txns'[t].pc = "done"
           /\ txns'[t].amount.t = "number" /\ txns'[t].amount.v > 0
           /\ txns'[t].fromAccount.v \in AccountIds
           /\ accounts[txns'[t].fromAccount.v].balance >= txns'[t].amount.v
           /\ Truthy(txns'[t].toAccount)
           /\ txns'[t].toAccount.v \notin AccountIds)
          => /\ txns'[t].res.status # "completed"
             /\ accounts'[txns'[t].fromAccount.v].balance
                  = accounts[txns'[t].fromAccount.v].balance]_vars

\* C19: a status query answers 'completed' only for the id of a transfer
\* that was made and reached completed.
C19_StatusIsActual ==
    txnStatus.status = "completed"
    => \E t \in TxnIds : TxnCompleted(t) /\ txns[t].transactionId = txnStatus.id

\* C20: every transfer that reaches completed is eventually handed to the
\* notification service: a notification that refers to it is enqueued.
C20_CompletedNotified ==
    \A t \in TxnIds :
        TxnCompleted(t)
        ~> (\E n \in NotifIds : /\ notifs[n].pc # "idle"
                                /\ notifs[n].txn = txns[t].transactionId)

(* ------------------ notifications (SpecNotify) ------------------------- *)
\* the positions in the log of the 'Notification delivered' records of id n
DeliveredAt(n) == {k \in 1..Len(notifLog) :
                     notifLog[k].event = "delivered" /\ notifLog[k].id = n}
\* the positions of its 'Notification sent' records
SentAt(n) == {k \in 1..Len(notifLog) :
                notifLog[k].event = "sent" /\ notifLog[k].id = n}

\* C21: a valid notification is answered with its id and status queued
\* before it is delivered: a request that was accepted has that response
\* from the step that accepts it, every 'delivered' record follows the
\* request's 'sent' record, and the response is the same after delivery.
C21_EnqueueBeforeDelivery ==
    \A n \in NotifIds :
        /\ notifs[n].pc \in {"queued", "delivered"} =>
              /\ notifs[n].res = NotifResp(201, "queued", notifs[n].type, "")
              /\ notifs[n].notificationId = n
        /\ \A k \in DeliveredAt(n) :
              /\ notifs[n].res.code = 201 /\ notifs[n].res.status = "queued"
              /\ \E j \in SentAt(n) : j < k

\* one notification has been delivered and another is still queued
C21_Witness ==
    \E n, m \in NotifIds :
        /\ notifs[n].pc = "delivered" /\ DeliveredAt(n) # {}
        /\ notifs[m].pc = "queued" /\ DeliveredAt(m) = {}

\* C22: delivery is attempted at most once per notification: the log has at
\* most one 'delivered' record per id, and none for a request that was
\* rejected at validation.
C22_DeliveredAtMostOnce ==
    \A n \in NotifIds :
        /\ Cardinality(DeliveredAt(n)) <= 1
        /\ notifs[n].res.code = 400 =>
              DeliveredAt(n) = {} /\ SentAt(n) = {} /\ notifs[n].pc = "done"

\* a notification has been delivered and a later request with an unknown
\* channel has been rejected
C22_Witness ==
    \E n, m \in NotifIds :
        /\ Cardinality(DeliveredAt(n)) = 1
        /\ notifs[m].res.error = "Invalid notification type"

\* C23: a notification status query reports the actual state of the task:
\* 'delivered' only for the id of a task that has been delivered, with the
\* channel the task was enqueued with.
C23_NotifStatusIsActual ==
    notifStatus.status = "delivered"
    => \E n \in NotifIds : /\ notifs[n].notificationId = notifStatus.id
                            /\ notifs[n].pc = "delivered"
                            /\ notifs[n].type = notifStatus.type

(* ------------------ failure kinds (Spec) ------------------------------- *)
NotDigits(id) == \E i \in 1..Len(id) : id[i] \notin Digits

\* The failure kinds that fit a finished authenticated read or adjustment,
\* from its inputs and the table at its query: a malformed input is a
\* ValidationError, an existing account of another user is Denied, an
\* account that does not exist is NotFound (or Denied: its caller is not
\* its owner), a debit beyond the balance read is InsufficientFunds.
FailureKinds(r) ==
    LET q == reqs[r]
    IN  IF q.op = "patch" /\ (q.amount.t # "number" \/ q.amount.v = 0)
             THEN {"ValidationError"}
        ELSE IF q.op = "patch" /\ q.kind \notin {"credit", "debit"}
             THEN {"ValidationError"}
        ELSE IF q.op = "get" /\ NotDigits(q.id) THEN {"ValidationError"}
        ELSE IF NotDigits(q.id) THEN {}
        ELSE IF q.existed /\ ~q.owned THEN {"Denied"}
        ELSE IF ~q.existed THEN {"NotFound", "Denied"}
        ELSE IF q.op = "patch" /\ q.kind = "debit" /\ q.amount.v > q.cur
             THEN {"InsufficientFunds"}
        ELSE {}

\* the failure kind a response reports to the caller
ReportedKind(res) ==
    CASE res.status = 403 -> "Denied"
      [] res.status = 404 -> "NotFound"
      [] res.status = 400 /\ res.error = "Insufficient funds" -> "InsufficientFunds"
      [] res.status = 400 /\ res.error # "Insufficient funds" -> "ValidationError"
      [] OTHER -> "none"

\* C24: every failure kind has its own response: a read or an adjustment
\* that fails is reported with a kind that fits it, so a non-owner's Denied
\* is never reported as NotFound, nor NotFound as InsufficientFunds.
C24_FailureKindsDistinct ==
    \A r \in ReqIds :
        (/\ Done(r) /\ Authed(r) /\ reqs[r].op \in {"get", "patch"}
         /\ FailureKinds(r) # {})
        => ReportedKind(reqs[r].res) \in FailureKinds(r)

\* C25: for each account, the audit entries are appended in the order in
\* which their balance writes were committed: two entries of one account
\* are in the order of the two writes they record.
C25_AuditInCommitOrder ==
    \A i, j \in 1..Len(log) :
        (i < j /\ log[i].accountId = log[j].accountId)
        => \E ci, cj \in 1..Len(commits) :
              /\ commits[ci].req = log[i].req
              /\ commits[cj].req = log[j].req
              /\ ci < cj

(* ------------------ validation failures (SpecAll) ---------------------- *)
\* an authenticated account request whose body fails validation: an
\* adjustment with an amount that is no number or is 0, or with an unknown
\* kind; a creation with an unknown kind, or with a deposit that is
\* missing, no number, 0, below 0 or above MAX_DEPOSIT
BadAccountInput(q) ==
    /\ q.user # NoUser
    /\ \/ /\ q.op = "patch"
          /\ \/ q.amount.t # "number"
             \/ q.amount.v = 0
             \/ q.kind \notin {"credit", "debit"}
       \/ /\ q.op = "create"
          /\ \/ q.kind \notin {"checking", "savings"}
             \/ q.amount.t # "number"
             \/ q.amount.v <= 0
             \/ q.amount.v > MAX_DEPOSIT

\* a transfer with a missing field
BadTransferInput(q) ==
    \/ q.fromAccount.t = "undefined"
    \/ q.toAccount.t = "undefined"
    \/ q.amount.t = "undefined"

\* a notification with a missing field or an unknown channel
BadNotifInput(q) ==
    \/ q.userId.t = "undefined"
    \/ q.type \notin {"email", "sms", "push"}
    \/ q.message.t = "undefined"

\* C26: the step that handles a request failing input validation answers
\* 400, issues no store query, sets no delivery timer, and leaves the
\* accounts, the audit entries, the committed writes and every other
\* request and task unchanged.
C26_ValidationNoEffect ==
    [][/\ \A r \in ReqIds :
            (reqs[r].pc = "idle" /\ reqs'[r].pc # "idle" /\ BadAccountInput(reqs'[r]))
            => /\ reqs'[r].pc = "done" /\ reqs'[r].res.status = 400
               /\ reqs'[r].queries = 0
               /\ accounts' = accounts /\ log' = log /\ commits' = commits
               /\ txns' = txns /\ notifs' = notifs /\ notifLog' = notifLog
       /\ \A t \in TxnIds :
            (txns[t].pc = "idle" /\ txns'[t].pc # "idle" /\ BadTransferInput(txns'[t]))
            => /\ txns'[t].pc = "done" /\ txns'[t].res.code = 400
               /\ accounts' = accounts /\ log' = log /\ commits' = commits
               /\ reqs' = reqs /\ notifs' = notifs /\ notifLog' = notifLog
       /\ \A n \in NotifIds :
            (notifs[n].pc = "idle" /\ notifs'[n].pc # "idle" /\ BadNotifInput(notifs'[n]))
            => /\ notifs'[n].pc = "done" /\ notifs'[n].res.code = 400
               /\ notifLog' = notifLog
               /\ accounts' = accounts /\ log' = log /\ commits' = commits
               /\ reqs' = reqs /\ txns' = txns]_vars

(* ------------------ adjustment arithmetic (Spec) ----------------------- *)
\* the position in commits of the balance write of request r
CommitOf(r) == CHOOSE k \in 1..Len(commits) : commits[k].req = r

\* C27: an owner's adjustment that succeeded, and whose write found the
\* balance it had read, stored balance + amount for a credit and
\* balance - amount for a debit and returned that value; until another
\* write on the account it is the stored balance.
C27_AdjustmentArithmetic ==
    \A r \in ReqIds :
        (/\ reqs[r].op = "patch" /\ Succeeded(r)
         /\ commits[CommitOf(r)].before = reqs[r].cur)
        => LET q == reqs[r]
               k == CommitOf(r)
               a == commits[k].accountId
           IN  /\ q.kind = "credit" => commits[k].after = commits[k].before + q.amount.v
               /\ q.kind = "debit" => commits[k].after = commits[k].before - q.amount.v
               /\ q.res.data[1] = commits[k].after
               /\ (\A j \in 1..Len(commits) : j > k => commits[j].accountId # a)
                     => accounts[a].balance = q.res.data[1]

\* an account created with deposit 2 was credited 1 and then debited 2,
\* one adjustment after the other, and holds 1
C27_Witness ==
    \E r1, r2 \in ReqIds : \E a \in AccountIds :
        /\ reqs[r1].op = "patch" /\ Succeeded(r1) /\ reqs[r1].kind = "credit"
        /\ reqs[r2].op = "patch" /\ Succeeded(r2) /\ reqs[r2].kind = "debit"
        /\ accounts[a].initial = 2 /\ reqs[r1].amount.v = 1 /\ reqs[r2].amount.v = 2
        /\ commits[CommitOf(r1)].accountId = a /\ commits[CommitOf(r2)].accountId = a
        /\ reqs[r1].res.data[1] = 3 /\ reqs[r2].cur = 3
        /\ accounts[a].balance = 1

\* C28: an account creation by an authenticated caller with a valid kind
\* and an initialDeposit from 0 to MAX_DEPOSIT, both included, succeeds:
\* the response is 201 and the new account holds the deposit and belongs
\* to the caller.
C28_DepositRangeAccepted ==
    \A r \in ReqIds :
        (/\ Done(r) /\ Authed(r) /\ reqs[r].op = "create"
         /\ reqs[r].kind \in {"checking", "savings"}
         /\ reqs[r].amount.t = "number"
         /\ reqs[r].amount.v >= 0 /\ reqs[r].amount.v <= MAX_DEPOSIT)
        => /\ reqs[r].res.status = 201
           /\ \E a \in AccountIds :
                 /\ accounts[a].by = r
                 /\ reqs[r].res.data = <<a, reqs[r].amount.v>>
                 /\ accounts[a].initial = reqs[r].amount.v
                 /\ accounts[a].user_id = reqs[r].user

(* ------------------ account read (Spec) -------------------------------- *)
\* C29: an authenticated account read whose path id is not a string of
\* decimal digits is answered 400 'Invalid account ID' and issues no store
\* query.
C29_BadIdNeverQueried ==
    \A r \in ReqIds :
        (/\ Done(r) /\ Authed(r) /\ reqs[r].op = "get" /\ NotDigits(reqs[r].id))
        => /\ reqs[r].res = Resp(400, "Invalid account ID", <<>>)
           /\ reqs[r].queries = 0

\* a read with the path id '1x' has been answered while account 1 exists
C29_Witness ==
    \E r \in ReqIds :
        /\ Done(r) /\ Authed(r) /\ reqs[r].op = "get"
        /\ reqs[r].id = <<"1", "x">> /\ reqs[r].user = 1
        /\ Len(accounts) > 0

\* C30: an account read returns data only when the path id is the caller's
\* user id and the row is the caller's; a caller whose user id is not the
\* path id gets 403 without a store query, also for an account the caller
\* owns; and the step of a read changes no stored state.
C30_ReadOwnIdOnly ==
    /\ [](\A r \in ReqIds :
            (Done(r) /\ Authed(r) /\ reqs[r].op = "get") =>
               /\ reqs[r].res.status = 200 =>
                     /\ ~NotDigits(reqs[r].id)
                     /\ parseInt(reqs[r].id) = reqs[r].user
                     /\ reqs[r].res.data[1] = parseInt(reqs[r].id)
                     /\ accounts[reqs[r].res.data[1]].user_id = reqs[r].user
               /\ (~NotDigits(reqs[r].id) /\ parseInt(reqs[r].id) # reqs[r].user) =>
                     /\ reqs[r].res = Resp(403, "Access denied", <<>>)
                     /\ reqs[r].queries = 0)
    /\ [][\A r \in ReqIds :
            (reqs'[r].op = "get" /\ reqs'[r] # reqs[r])
            => accounts' = accounts /\ log' = log /\ commits' = commits]_vars

\* user 2 owns account 1 and was refused its read; user 1, whose id is the
\* account's, found no account
C30_Witness ==
    /\ \E r \in ReqIds :
          /\ Done(r) /\ reqs[r].op = "get" /\ reqs[r].user = 2
          /\ reqs[r].id = <<"1">> /\ reqs[r].owned
          /\ reqs[r].res.status = 403
    /\ \E r \in ReqIds :
          /\ Done(r) /\ reqs[r].op = "get" /\ reqs[r].user = 1
          /\ reqs[r].id = <<"1">> /\ reqs[r].existed /\ reqs[r].res.status = 404

====
